---- MODULE Spec2Model ----
(***************************************************************************)
(* Streaming parser for Breakpad-style symbol files (src/lib.rs).          *)
(* The parser is a resumable state machine: parse(chunk) is called with    *)
(* successive chunks of the input, finish() after them.  Bytes are the     *)
(* integers 0..255, byte strings are sequences of them.  A u32 value is    *)
(* kept as its two 16-bit halves [hi, lo], so that the arithmetic is the   *)
(* arithmetic modulo 2^32 of the source.                                   *)
(***************************************************************************)
EXTENDS Integers, Sequences, FiniteSets, TLC

VARIABLES
    state,      \* Parser.state, the ordinal of the State enum
    row,        \* Parser.row, four u32 slots (row[1] is the source's row[0])
    row_pos,    \* Parser.row_pos
    events,     \* the calls made on Parser.api so far, in order
    by,         \* for each event, the state whose dispatch made the call
    input,      \* the bytes of the stream being fed
    recs,       \* the lines the stream was built from
    pos,        \* how many bytes of input have been fed so far
    call,       \* the last entry point called on the parser
    nfinish     \* how many finish() calls were made in a row

vars == <<state, row, row_pos, events, by, input, recs, pos, call, nfinish>>

-----------------------------------------------------------------------------
(* Bounds of the model *)

MaxRecs == 2        \* lines per stream
MaxLen == 25        \* bytes per stream
MaxFinish == 2      \* consecutive finish() calls

-----------------------------------------------------------------------------
(* enum State, #[repr(u8)] *)

Start == 0
LineHexAddr == 1
LineHexSize == 2
LineDecLine == 3
LineDecFile == 4
LineEnd == 5
Skip == 6
FuncOrFile == 7
Func == 8
FuncHexAddr == 9
FuncHexSize == 10
FuncHexParams == 11
FuncStrName == 12
FuncEnd == 13
File == 14
FileDecIndex == 15
FileStrName == 16
FileEnd == 17
Public == 18
PublicHexAddr == 19
PublicHexParams == 20
PublicStrName == 21
PublicEnd == 22

\* State::next: transmute(self as u8 + 1)
State_next(s) == s + 1

\* u32 arithmetic on 16-bit halves
Half == 65536

u32(n) == [hi |-> n \div Half, lo |-> n % Half]

\* (int_value << 4) | u32::from(d)
shl4_or(v, d) == [hi |-> ((v.hi * 16) + (v.lo \div 4096)) % Half,
                  lo |-> ((v.lo * 16) % Half) + d]

\* times ten plus digit that stays at the largest value instead of wrapping
mul10_add_saturating(v, d) ==
    IF (v.hi * 10) + (((v.lo * 10) + d) \div Half) >= Half
    THEN [hi |-> Half - 1, lo |-> Half - 1]
    ELSE [hi |-> (v.hi * 10) + (((v.lo * 10) + d) \div Half),
          lo |-> ((v.lo * 10) + d) % Half]

\* (int_value * 10) + u32::from(d), wrapping
mul10_add(v, d) == [hi |-> ((v.hi * 10) + (((v.lo * 10) + d) \div Half)) % Half,
                    lo |-> ((v.lo * 10) + d) % Half]

ZeroRow == <<u32(0), u32(0), u32(0), u32(0)>>

\* the byte literals the scanners compare against
ch_F == 70
ch_P == 80
ch_U == 85
ch_I == 73
ch_NL == 10

\* the marker of "not a digit" in the decode tables
NoDigit == 255

DEC_TABLE == [ch \in 0..255 |-> IF ch >= 48 /\ ch <= 57 THEN ch - 48 ELSE NoDigit]

dec_value(ch) == DEC_TABLE[ch]

HEX_TABLE == [ch \in 0..255 |->
                 IF ch >= 97 /\ ch <= 102 THEN ch - 97 + 10 ELSE DEC_TABLE[ch]]

hex_value(ch) == HEX_TABLE[ch]

-----------------------------------------------------------------------------
(* The sink.  A call is recorded as [cb, nums, str]: the u32 arguments in  *)
(* order and, for onStrValue, the byte slice.                              *)

api_call(self, cb, nums, str) ==
    [self EXCEPT !.events = Append(@, [cb |-> cb, nums |-> nums, str |-> str])]

\* the result of a scanning routine: the parser and the returned offset
Ret(self, offset) == [self |-> self, ret |-> offset]

\* chunk[i] of the source, whose offsets start at 0
At(chunk, i) == chunk[i + 1]

\* chunk[from..to] of the source
Slice(chunk, from, to) == SubSeq(chunk, from + 1, to)

-----------------------------------------------------------------------------
(* Record completion *)

\* on_end that leaves the row as it is
on_end_keeps_row(self) ==
    [self EXCEPT !.row_pos = 0, !.state = Start]

on_end(self) ==
    [self EXCEPT !.row_pos = 0, !.row = ZeroRow, !.state = Start]

on_line_end(self) ==
    LET s == on_end(self)
    IN  api_call(s, "onLine", <<s.row[1], s.row[2], s.row[3], s.row[4]>>, <<>>)

on_func_end(self) ==
    LET s == on_end(self)
    IN  api_call(s, "onFunc", <<s.row[1], s.row[2], s.row[3]>>, <<>>)

on_file_end(self) ==
    LET s == on_end(self)
    IN  api_call(s, "onFile", <<s.row[1]>>, <<>>)

on_public_end(self) ==
    LET s == on_end(self)
    IN  api_call(s, "onPublic", <<s.row[1], s.row[2]>>, <<>>)

-----------------------------------------------------------------------------
(* Scanning routines *)

\* parse_start that consumes the hex digit it sees
parse_start_eats_digit(self, chunk, offset) ==
    LET ch == At(chunk, offset)
    IN  IF hex_value(ch) # NoDigit
        THEN Ret([self EXCEPT !.state = LineHexAddr], offset + 1)
        ELSE Ret([self EXCEPT !.state = CASE ch = ch_F -> FuncOrFile
                                          [] ch = ch_P -> Public
                                          [] OTHER -> Skip],
                 offset + 1)

parse_start(self, chunk, offset) ==
    LET ch == At(chunk, offset)
    IN  IF hex_value(ch) # NoDigit
        THEN Ret([self EXCEPT !.state = LineHexAddr], offset)
        ELSE Ret([self EXCEPT !.state = CASE ch = ch_F -> FuncOrFile
                                          [] ch = ch_P -> Public
                                          [] OTHER -> Skip],
                 offset + 1)

parse_func_or_file(self, chunk, offset) ==
    Ret([self EXCEPT !.state = CASE At(chunk, offset) = ch_U -> Func
                                 [] At(chunk, offset) = ch_I -> File
                                 [] OTHER -> Skip],
        offset + 1)

RECURSIVE parse_hex_loop(_, _, _, _)
parse_hex_loop(self, chunk, i, int_value) ==
    IF i >= Len(chunk)
    THEN Ret([self EXCEPT !.row[self.row_pos + 1] = int_value], Len(chunk))
    ELSE LET d == hex_value(At(chunk, i))
         IN  IF d = NoDigit
             THEN Ret([self EXCEPT !.row_pos = @ + 1,
                                   !.state = State_next(@)],
                      i + 1)
             ELSE parse_hex_loop(self, chunk, i + 1,
                                 shl4_or(int_value, d))

\* parse_hex that leaves the cursor where it is
parse_hex_keeps_cursor(self, chunk, offset) ==
    LET r == parse_hex_loop(self, chunk, offset, self.row[self.row_pos + 1])
    IN  Ret([r.self EXCEPT !.row_pos = self.row_pos], r.ret)

\* parse_hex that does not consume the delimiter
parse_hex_keeps_delimiter(self, chunk, offset) ==
    LET r == parse_hex_loop(self, chunk, offset, self.row[self.row_pos + 1])
    IN  IF r.self.state # self.state THEN Ret(r.self, r.ret - 1) ELSE r

parse_hex(self, chunk, offset) ==
    parse_hex_loop(self, chunk, offset, self.row[self.row_pos + 1])

RECURSIVE parse_dec_loop(_, _, _, _)
parse_dec_loop(self, chunk, i, int_value) ==
    IF i >= Len(chunk)
    THEN Ret([self EXCEPT !.row[self.row_pos + 1] = int_value], Len(chunk))
    ELSE LET d == dec_value(At(chunk, i))
         IN  IF d = NoDigit
             THEN Ret([self EXCEPT !.row[self.row_pos + 1] = int_value,
                                   !.row_pos = @ + 1,
                                   !.state = State_next(@)],
                      i + 1)
             ELSE parse_dec_loop(self, chunk, i + 1,
                                 mul10_add(int_value, d))

\* parse_dec that takes the end of the chunk for the end of the digit run
RECURSIVE parse_dec_ends_at_chunk_loop(_, _, _, _)
parse_dec_ends_at_chunk_loop(self, chunk, i, int_value) ==
    IF i >= Len(chunk) \/ dec_value(At(chunk, i)) = NoDigit
    THEN Ret([self EXCEPT !.row[self.row_pos + 1] = int_value,
                          !.row_pos = @ + 1,
                          !.state = State_next(@)],
             IF i >= Len(chunk) THEN Len(chunk) ELSE i + 1)
    ELSE parse_dec_ends_at_chunk_loop(self, chunk, i + 1,
                                      mul10_add(int_value, dec_value(At(chunk, i))))

parse_dec_ends_at_chunk(self, chunk, offset) ==
    parse_dec_ends_at_chunk_loop(self, chunk, offset, self.row[self.row_pos + 1])

\* parse_dec that does not store the value when it meets the delimiter
RECURSIVE parse_dec_no_commit_loop(_, _, _, _)
parse_dec_no_commit_loop(self, chunk, i, int_value) ==
    IF i >= Len(chunk)
    THEN Ret([self EXCEPT !.row[self.row_pos + 1] = int_value], Len(chunk))
    ELSE LET d == dec_value(At(chunk, i))
         IN  IF d = NoDigit
             THEN Ret([self EXCEPT !.row_pos = @ + 1,
                                   !.state = State_next(@)],
                      i + 1)
             ELSE parse_dec_no_commit_loop(self, chunk, i + 1,
                                           mul10_add(int_value, d))

parse_dec_no_commit(self, chunk, offset) ==
    parse_dec_no_commit_loop(self, chunk, offset, self.row[self.row_pos + 1])

parse_dec(self, chunk, offset) ==
    parse_dec_loop(self, chunk, offset, self.row[self.row_pos + 1])

RECURSIVE parse_str_loop(_, _, _, _)
parse_str_loop(self, chunk, offset, i) ==
    IF i >= Len(chunk)
    THEN Ret(api_call(self, "onStrValue", <<>>, Slice(chunk, offset, Len(chunk))),
             Len(chunk))
    ELSE IF At(chunk, i) = ch_NL
         THEN Ret(api_call([self EXCEPT !.state = State_next(@)],
                           "onStrValue", <<>>, Slice(chunk, offset, i)),
                  i + 1)
         ELSE parse_str_loop(self, chunk, offset, i + 1)

\* parse_str that makes no call when the chunk ends before the newline
RECURSIVE parse_str_no_partial_loop(_, _, _, _)
parse_str_no_partial_loop(self, chunk, offset, i) ==
    IF i >= Len(chunk)
    THEN Ret(self, Len(chunk))
    ELSE IF At(chunk, i) = ch_NL
         THEN Ret(api_call([self EXCEPT !.state = State_next(@)],
                           "onStrValue", <<>>, Slice(chunk, offset, i)),
                  i + 1)
         ELSE parse_str_no_partial_loop(self, chunk, offset, i + 1)

parse_str_no_partial(self, chunk, offset) ==
    parse_str_no_partial_loop(self, chunk, offset, offset)

\* parse_str that takes the slice from the start of the chunk
parse_str_from_chunk_start(self, chunk, offset) ==
    parse_str_loop(self, chunk, 0, offset)

\* parse_str that makes no call for an empty slice
parse_str_skips_empty(self, chunk, offset) ==
    LET r == parse_str_loop(self, chunk, offset, offset)
    IN  IF r.self.events[Len(r.self.events)].str = <<>>
        THEN Ret([r.self EXCEPT !.events = self.events], r.ret)
        ELSE r

parse_str(self, chunk, offset) == parse_str_loop(self, chunk, offset, offset)

RECURSIVE skip_until_digit_loop(_, _, _)
skip_until_digit_loop(self, chunk, i) ==
    IF i >= Len(chunk)
    THEN Ret(self, Len(chunk))
    ELSE IF hex_value(At(chunk, i)) # NoDigit
         THEN Ret([self EXCEPT !.state = State_next(@)], i)
         ELSE skip_until_digit_loop(self, chunk, i + 1)

skip_until_digit(self, chunk, offset) == skip_until_digit_loop(self, chunk, offset)

RECURSIVE skip_past_newline_loop(_, _, _)
skip_past_newline_loop(self, chunk, i) ==
    IF i >= Len(chunk)
    THEN Ret(self, Len(chunk))
    ELSE IF At(chunk, i) = ch_NL
         THEN Ret([self EXCEPT !.state = Start], i + 1)
         ELSE skip_past_newline_loop(self, chunk, i + 1)

\* skip_past_newline that hands the bytes it skips to onStrValue
skip_past_newline_reporting(self, chunk, offset) ==
    LET r == skip_past_newline_loop(self, chunk, offset)
    IN  Ret(api_call(r.self, "onStrValue", <<>>, Slice(chunk, offset, r.ret)),
            r.ret)

\* skip_past_newline that advances the state as the scanners do
skip_past_newline_next(self, chunk, offset) ==
    LET r == skip_past_newline_loop(self, chunk, offset)
    IN  IF r.self.state # self.state
        THEN Ret([r.self EXCEPT !.state = State_next(self.state)], r.ret)
        ELSE r

skip_past_newline(self, chunk, offset) == skip_past_newline_loop(self, chunk, offset)

-----------------------------------------------------------------------------
(* Entry points *)

HexStates == {LineHexAddr, LineHexSize, FuncHexAddr, FuncHexSize,
              FuncHexParams, PublicHexAddr, PublicHexParams}
DecStates == {LineDecLine, LineDecFile, FileDecIndex}
StrStates == {FuncStrName, FileStrName, PublicStrName}
BareStates == {Func, File, Public}
EndStates == {LineEnd, FuncEnd, FileEnd, PublicEnd}

\* finish with the arms of FuncEnd and FileEnd exchanged
finish_swapped(self) ==
    CASE self.state = LineEnd -> on_line_end(self)
      [] self.state = FuncEnd -> on_file_end(self)
      [] self.state = FileEnd -> on_func_end(self)
      [] self.state = PublicEnd -> on_public_end(self)
      [] OTHER -> self

\* finish that abandons a record in progress
finish_abandons(self) ==
    CASE self.state = LineEnd -> on_line_end(self)
      [] self.state = FuncEnd -> on_func_end(self)
      [] self.state = FileEnd -> on_file_end(self)
      [] self.state = PublicEnd -> on_public_end(self)
      [] OTHER -> on_end(self)

\* finish that fires the completion and leaves the state pending
finish_keeps_state(self) ==
    CASE self.state = LineEnd -> [on_line_end(self) EXCEPT !.state = self.state]
      [] self.state = FuncEnd -> [on_func_end(self) EXCEPT !.state = self.state]
      [] self.state = FileEnd -> [on_file_end(self) EXCEPT !.state = self.state]
      [] self.state = PublicEnd -> [on_public_end(self) EXCEPT !.state = self.state]
      [] OTHER -> self

finish(self) ==
    CASE self.state = LineEnd -> on_line_end(self)
      [] self.state = FuncEnd -> on_func_end(self)
      [] self.state = FileEnd -> on_file_end(self)
      [] self.state = PublicEnd -> on_public_end(self)
      [] OTHER -> self

\* one iteration of the loop of parse: the match on self.state
dispatch(self, chunk, offset) ==
    CASE self.state = Start -> parse_start(self, chunk, offset)
      [] self.state = FuncOrFile -> parse_func_or_file(self, chunk, offset)
      [] self.state \in HexStates -> parse_hex(self, chunk, offset)
      [] self.state \in DecStates -> parse_dec(self, chunk, offset)
      [] self.state \in StrStates -> parse_str(self, chunk, offset)
      [] self.state \in BareStates -> skip_until_digit(self, chunk, offset)
      [] self.state = LineEnd -> Ret(on_line_end(self), offset)
      [] self.state = FuncEnd -> Ret(on_func_end(self), offset)
      [] self.state = FileEnd -> Ret(on_file_end(self), offset)
      [] self.state = PublicEnd -> Ret(on_public_end(self), offset)
      [] self.state = Skip -> skip_past_newline(self, chunk, offset)

\* whether parse runs one more iteration
parse_continues(chunk, offset) == offset < Len(chunk)

RECURSIVE Copies(_, _)
Copies(x, n) == IF n = 0 THEN <<>> ELSE <<x>> \o Copies(x, n - 1)

\* the loop of parse; made notes, for every call an iteration adds to the
\* sink, the state that iteration dispatched on
RECURSIVE parse_loop(_, _, _, _)
parse_loop(self, chunk, offset, made) ==
    IF parse_continues(chunk, offset)
    THEN LET r == dispatch(self, chunk, offset)
         IN  parse_loop(r.self, chunk, r.ret,
                        made \o Copies(self.state,
                                       Len(r.self.events) - Len(self.events)))
    ELSE [self |-> self, made |-> made]

\* parse that first fires a pending completion, whatever the chunk
parse_run_flushing(self, chunk) ==
    parse_loop(finish(self), chunk, 0,
               Copies(self.state, Len(finish(self).events) - Len(self.events)))

\* the iterations of the loop of parse on a chunk: for each one the state
\* and the offset it dispatched on, the state and the offset it returned
\* and the number of calls it made on the sink
RECURSIVE parse_steps(_, _, _)
parse_steps(self, chunk, offset) ==
    IF parse_continues(chunk, offset)
    THEN LET r == dispatch(self, chunk, offset)
         IN  <<[from |-> self.state, at |-> offset,
                to |-> r.self.state, ret |-> r.ret,
                calls |-> Len(r.self.events) - Len(self.events)]>>
                \o parse_steps(r.self, chunk, r.ret)
    ELSE <<>>

parse_run(self, chunk) == parse_loop(self, chunk, 0, <<>>)

parse(self, chunk) == parse_run(self, chunk).self

new == [state |-> Start, row |-> ZeroRow, row_pos |-> 0, events |-> <<>>]

-----------------------------------------------------------------------------
(* The streams fed to the parser.  A line is [kind, kw, f, name]: kw the   *)
(* keyword with its flags, f the digit runs of the numeric fields, name    *)
(* the text after them.  A line of kind Other or Garbled is the text name  *)
(* alone.                                                                  *)

RECURSIVE Join(_)
Join(runs) ==
    IF Len(runs) = 0 THEN <<>>
    ELSE IF Len(runs) = 1 THEN runs[1]
    ELSE runs[1] \o <<32>> \o Join(Tail(runs))

Render(l) ==
    CASE l.kind = "Line" -> Join(l.f) \o <<10>>
      [] l.kind \in {"Other", "Garbled"} -> l.name \o <<10>>
      [] OTHER -> l.kw \o <<32>> \o Join(l.f) \o <<32>> \o l.name \o <<10>>

RECURSIVE RenderAll(_)
RenderAll(ls) == IF ls = <<>> THEN <<>> ELSE Render(ls[1]) \o RenderAll(Tail(ls))

kwFUNC == <<70, 85, 78, 67>>
kwFILE == <<70, 73, 76, 69>>
kwPUBLIC == <<80, 85, 66, 76, 73, 67>>

Records == {
    \* "1a 2b 3 0"
    [kind |-> "Line", kw |-> <<>>, f |-> <<<<49, 97>>, <<50, 98>>, <<51>>, <<48>>>>, name |-> <<>>],
    \* "FUNC c0 a 0 my"
    [kind |-> "Func", kw |-> kwFUNC, f |-> <<<<99, 48>>, <<97>>, <<48>>>>, name |-> <<109, 121>>],
    \* "FILE 0 a.c"
    [kind |-> "File", kw |-> kwFILE, f |-> <<<<48>>>>, name |-> <<97, 46, 99>>],
    \* "FILE 12 " (an empty name)
    [kind |-> "File", kw |-> kwFILE, f |-> <<<<49, 50>>>>, name |-> <<>>],
    \* "PUBLIC m 1f 4 p" (a flag after the keyword)
    [kind |-> "Public", kw |-> kwPUBLIC \o <<32, 109>>, f |-> <<<<49, 102>>, <<52>>>>, name |-> <<112>>],
    \* "fffffffff 1 4294967297 0" (a hex and a decimal run beyond 32 bits)
    [kind |-> "Line", kw |-> <<>>,
     f |-> <<<<102, 102, 102, 102, 102, 102, 102, 102, 102>>, <<49>>,
             <<52, 50, 57, 52, 57, 54, 55, 50, 57, 55>>, <<48>>>>,
     name |-> <<>>]
}

\* lines that are no record and have a first byte, or a second byte after
\* 'F', that is not the newline
Others == {
    \* "M x"
    [kind |-> "Other", kw |-> <<>>, f |-> <<>>, name |-> <<77, 32, 120>>],
    \* "FX"
    [kind |-> "Other", kw |-> <<>>, f |-> <<>>, name |-> <<70, 88>>]
}

\* lines that are no record and end at their first byte, or right after 'F'
Blanks == {
    \* ""
    [kind |-> "Other", kw |-> <<>>, f |-> <<>>, name |-> <<>>],
    \* "F"
    [kind |-> "Other", kw |-> <<>>, f |-> <<>>, name |-> <<70>>]
}

\* lines that start as a Line record and do not go on as one
Garbled == {
    \* "1 x"
    [kind |-> "Garbled", kw |-> <<>>, f |-> <<>>, name |-> <<49, 32, 120>>]
}

Lines == Records \cup Others \cup Blanks \cup Garbled

Streams == {s \in UNION {[1..n -> Lines] : n \in 0..MaxRecs} :
               Len(RenderAll(s)) <= MaxLen}

-----------------------------------------------------------------------------
(* The machine *)

self_now == [state |-> state, row |-> row, row_pos |-> row_pos, events |-> events]

Init ==
    /\ recs \in Streams
    /\ input = RenderAll(recs)
    /\ pos = 0
    /\ state = new.state
    /\ row = new.row
    /\ row_pos = new.row_pos
    /\ events = new.events
    /\ by = <<>>
    /\ call = [op |-> "new", empty |-> TRUE]
    /\ nfinish = 0

\* parse(chunk), chunk being the next n bytes of the stream
Parse(n) ==
    /\ \E r \in {parse_run(self_now, SubSeq(input, pos + 1, pos + n))} :
          /\ state' = r.self.state
          /\ row' = r.self.row
          /\ row_pos' = r.self.row_pos
          /\ events' = r.self.events
          /\ by' = by \o r.made
    /\ pos' = pos + n
    /\ call' = [op |-> "parse", empty |-> (n = 0)]
    /\ nfinish' = 0
    /\ UNCHANGED <<input, recs>>

Finish ==
    /\ nfinish < MaxFinish
    /\ \E s \in {finish(self_now)} :
          /\ state' = s.state
          /\ row' = s.row
          /\ row_pos' = s.row_pos
          /\ events' = s.events
          /\ by' = by \o Copies(state, Len(s.events) - Len(events))
    /\ call' = [op |-> "finish", empty |-> TRUE]
    /\ nfinish' = nfinish + 1
    /\ UNCHANGED <<input, recs, pos>>

Next ==
    \/ \E n \in 0..(Len(input) - pos) : Parse(n)
    \/ Finish

Spec == Init /\ [][Next]_vars

-----------------------------------------------------------------------------
(* What the stream says, read off the lines it was built from *)

Fed == SubSeq(input, 1, pos)

AllFed == pos = Len(input)

\* the run ended: every byte was fed and finish() was the last call
Ended == AllFed /\ call.op = "finish"

IsRecord(l) == l.kind \in {"Line", "Func", "File", "Public"}

RecordsOf(ls) == SelectSeq(ls, IsRecord)

\* every line is a record or a line the parser skips as one line
NoBlanks == \A k \in 1..Len(recs) : recs[k] \in Records \cup Others

OnlyRecords == \A k \in 1..Len(recs) : IsRecord(recs[k])

\* the offset in the stream right after line k
EndOf(k) == Len(RenderAll(SubSeq(recs, 1, k)))

\* the records whose last byte has been fed
RecordsFed == RecordsOf(SubSeq(recs, 1, Cardinality({k \in 1..Len(recs) : EndOf(k) <= pos})))

DigitOf(ch) == IF ch >= 97 THEN ch - 87 ELSE ch - 48

RECURSIVE ValueOf(_, _)
ValueOf(run, base) ==
    IF run = <<>> THEN 0
    ELSE (ValueOf(SubSeq(run, 1, Len(run) - 1), base) * base) + DigitOf(run[Len(run)])

CallbackOf(kind) ==
    CASE kind = "Line" -> "onLine"
      [] kind = "Func" -> "onFunc"
      [] kind = "File" -> "onFile"
      [] kind = "Public" -> "onPublic"

\* the base of field i of a record: the third and fourth field of a Line
\* and the index of a File are decimal
BaseOf(kind, i) ==
    IF (kind = "Line" /\ i >= 3) \/ kind = "File" THEN 10 ELSE 16

\* the last n elements of a run, and the run without them
LastN(run, n) == SubSeq(run, (IF Len(run) > n THEN Len(run) - n ELSE 0) + 1, Len(run))

DropLastN(run, n) == SubSeq(run, 1, IF Len(run) > n THEN Len(run) - n ELSE 0)

\* the value of a decimal run as three base-65536 digits, exact below 2^48
RECURSIVE DecLimbs(_)
DecLimbs(run) ==
    IF run = <<>> THEN <<0, 0, 0>>
    ELSE LET m == DecLimbs(DropLastN(run, 1))
             t0 == (m[3] * 10) + DigitOf(run[Len(run)])
             t1 == (m[2] * 10) + (t0 \div 65536)
         IN  <<(m[1] * 10) + (t1 \div 65536), t1 % 65536, t0 % 65536>>

\* the value of a digit run modulo 2^32: the last eight digits of a hex
\* run, the two low base-65536 digits of a decimal one
WideValue(run, base) ==
    IF base = 16
    THEN [hi |-> ValueOf(LastN(DropLastN(run, 4), 4), 16),
          lo |-> ValueOf(LastN(run, 4), 16)]
    ELSE [hi |-> DecLimbs(run)[2], lo |-> DecLimbs(run)[3]]

\* the completion a record is to produce
Expected(l) ==
    [cb |-> CallbackOf(l.kind),
     nums |-> [i \in 1..Len(l.f) |-> WideValue(l.f[i], BaseOf(l.kind, i))],
     str |-> <<>>]

IsStr(e) == e.cb = "onStrValue"

IsCompletion(e) == e.cb # "onStrValue"

Completions(evs) == SelectSeq(evs, IsCompletion)

\* adjacent onStrValue calls merged into one
RECURSIVE Merge(_)
Merge(evs) ==
    IF Len(evs) < 2 THEN evs
    ELSE IF IsStr(evs[1]) /\ IsStr(evs[2])
         THEN Merge(<<[evs[1] EXCEPT !.str = @ \o evs[2].str]>> \o Tail(Tail(evs)))
         ELSE <<evs[1]>> \o Merge(Tail(evs))

\* for each completion, the bytes of the onStrValue calls since the one before
RECURSIVE NameGroups(_, _)
NameGroups(evs, cur) ==
    IF evs = <<>> THEN <<>>
    ELSE IF IsStr(Head(evs))
         THEN NameGroups(Tail(evs), cur \o Head(evs).str)
         ELSE <<cur>> \o NameGroups(Tail(evs), <<>>)

\* the calls made when the whole stream is one chunk, followed by finish()
WholeRun(bytes) == finish(parse(new, bytes)).events

-----------------------------------------------------------------------------
(* C1: every well-formed record of a stream, fed under any chunking and    *)
(* followed by finish(), is completed by its callback with the values of   *)
(* its fields: base 16 for the hex fields, base 10 for the decimal ones.   *)
C1_FieldValues ==
    (Ended /\ OnlyRecords) =>
        Completions(events) = [k \in 1..Len(recs) |-> Expected(recs[k])]

(* C2 as stated: the calls made under any chunking are the very calls made *)
(* when the whole stream is one chunk.                                     *)
C2_SameCalls ==
    (Ended /\ NoBlanks) => events = WholeRun(input)

(* C2 as amended: the calls made under any chunking are those made when    *)
(* the whole stream is one chunk once adjacent onStrValue calls are merged.*)
C2_SameCallsMerged ==
    (Ended /\ NoBlanks) => Merge(events) = Merge(WholeRun(input))

C2_Witness ==
    /\ Ended /\ NoBlanks
    /\ Len(RecordsOf(recs)) = 2
    /\ events # WholeRun(input)

(* C3: the onStrValue bytes delivered between the previous completion and  *)
(* the completion of a Func, File or Public record are the record's name,  *)
(* and every record of an ended stream has its completion.                 *)
C3_Names ==
    NoBlanks =>
        LET names == NameGroups(events, <<>>)
            rs == RecordsOf(recs)
        IN  /\ Len(names) <= Len(rs)
            /\ \A k \in 1..Len(names) : names[k] = rs[k].name
            /\ Ended => Len(names) = Len(rs)

C3_Witness ==
    /\ Ended /\ NoBlanks
    /\ Len(RecordsOf(recs)) = 2
    /\ \E i \in 1..(Len(events) - 1) :
          /\ IsStr(events[i]) /\ IsStr(events[i + 1])
          /\ events[i].str # <<>> /\ events[i + 1].str # <<>>

NameCallback(s) ==
    CASE s = FuncStrName -> "onFunc"
      [] s = FileStrName -> "onFile"
      [] s = PublicStrName -> "onPublic"

EndCallback(s) ==
    CASE s = LineEnd -> "onLine"
      [] s = FuncEnd -> "onFunc"
      [] s = FileEnd -> "onFile"
      [] s = PublicEnd -> "onPublic"

(* C4: every onStrValue is made by a *StrName state and is followed, with  *)
(* nothing but more onStrValue of the same state in between, by the        *)
(* completion of that state's record; until then the parser is in that     *)
(* state or in the End state after it.  No onLine comes right after an     *)
(* onStrValue.                                                             *)
C4_Order ==
    /\ \A i \in 1..Len(events) :
          IsStr(events[i]) =>
            /\ by[i] \in StrStates
            /\ i < Len(events) =>
                  \/ IsStr(events[i + 1]) /\ by[i + 1] = by[i]
                  \/ events[i + 1].cb = NameCallback(by[i])
            /\ i = Len(events) => state \in {by[i], State_next(by[i])}
    /\ \A i \in 2..Len(events) :
          events[i].cb = "onLine" => ~IsStr(events[i - 1])

C4_Witness ==
    /\ Ended
    /\ \E i, j \in 1..Len(events) :
          /\ i < j
          /\ IsStr(events[i]) /\ IsStr(events[j])
          /\ by[i] # by[j]
    /\ events[Len(events)].cb = "onFunc"

(* C5: once the last byte of a line that is no record has been fed the     *)
(* parser is in Start, and every record of an ended stream is completed.   *)
C5_Resync ==
    (\A k \in 1..Len(recs) : recs[k] \notin Garbled) =>
        /\ \A k \in 1..Len(recs) :
              (recs[k].kind = "Other" /\ pos = EndOf(k)) => state = Start
        /\ Ended => Len(Completions(events)) = Len(RecordsOf(recs))

(* C6: no call on the sink is made by the dispatch of Start, FuncOrFile,   *)
(* Skip, Func, File or Public, and a stream without a record makes no call.*)
C6_Silent ==
    /\ \A i \in 1..Len(by) :
          by[i] \notin {Start, FuncOrFile, Skip, Func, File, Public}
    /\ (\A k \in 1..Len(recs) : recs[k].kind = "Other") => events = <<>>

C6_Witness ==
    /\ Ended
    /\ Len(recs) >= 2
    /\ \A k \in 1..Len(recs) : recs[k] \in Others
    /\ events = <<>>

(* C7: finish() in a state that is not LineEnd, FuncEnd, FileEnd or        *)
(* PublicEnd makes no call and leaves state, row and row_pos as they are.  *)
C7_FinishDropsPartial ==
    [][(call'.op = "finish" /\ state \notin EndStates) =>
          /\ events' = events
          /\ state' = state
          /\ row' = row
          /\ row_pos' = row_pos]_vars

C7_Witness ==
    /\ call.op = "finish"
    /\ pos < Len(input)
    /\ state \in HexStates \cup DecStates \cup StrStates
    /\ row # ZeroRow

(* C8: a record whose last byte was consumed has exactly one completion,   *)
(* made or pending: every completion is made by the dispatch of the End    *)
(* state of its kind, the completions made plus the pending one are the    *)
(* records fed so far, finish() in an End state makes that one call and    *)
(* goes to Start, the next non-empty parse makes it first, and a finish()  *)
(* right after a finish() makes no call.                                   *)
C8_Counted ==
    /\ \A i \in 1..Len(events) :
          IsCompletion(events[i]) =>
            by[i] \in EndStates /\ events[i].cb = EndCallback(by[i])
    /\ NoBlanks =>
          LET done == Completions(events)
              pending == IF state \in EndStates THEN 1 ELSE 0
          IN  /\ Len(done) + pending = Len(RecordsFed)
              /\ \A k \in 1..Len(done) : done[k].cb = CallbackOf(RecordsFed[k].kind)
              /\ pending = 1 =>
                    EndCallback(state) = CallbackOf(RecordsFed[Len(RecordsFed)].kind)

C8_Fired ==
    /\ (state \in EndStates /\ call'.op = "finish") =>
          /\ Len(events') = Len(events) + 1
          /\ SubSeq(events', 1, Len(events)) = events
          /\ events'[Len(events')].cb = EndCallback(state)
          /\ state' = Start
    /\ (state \in EndStates /\ call'.op = "parse" /\ ~call'.empty) =>
          /\ Len(events') > Len(events)
          /\ events'[Len(events) + 1].cb = EndCallback(state)
          /\ by'[Len(events) + 1] = state
    /\ (call.op = "finish" /\ call'.op = "finish") => events' = events

(* C8: every step fires a pending completion exactly as C8_Fired says and  *)
(* every state counts the completions as C8_Counted says.                  *)
C8_ExactlyOnce == [][C8_Fired]_vars /\ []C8_Counted

C8_Witness ==
    /\ nfinish = 2
    /\ AllFed /\ NoBlanks
    /\ Len(Completions(events)) = 2
    /\ by[Len(by)] \in EndStates

(* C9: whenever the state is Start, Skip or FuncOrFile the four row slots  *)
(* are 0 and row_pos is 0.                                                 *)
C9_Reset ==
    state \in {Start, Skip, FuncOrFile} => (row = ZeroRow /\ row_pos = 0)

C9_Witness ==
    /\ state = Start
    /\ pos < Len(input)
    /\ Len(events) > 0
    /\ events[Len(events)].cb = "onLine"
    /\ call.op = "parse"

(* C10: parse with an empty chunk makes no call and leaves state, row and  *)
(* row_pos as they are, also when a completion is pending.                 *)
C10_EmptyChunk ==
    [][(call'.op = "parse" /\ call'.empty) =>
          /\ events' = events
          /\ state' = state
          /\ row' = row
          /\ row_pos' = row_pos]_vars

C10_Witness ==
    /\ call.op = "parse" /\ call.empty
    /\ state \in EndStates
    /\ row # ZeroRow

-----------------------------------------------------------------------------
IsEmptyStr(e) == IsStr(e) /\ e.str = <<>>

IsNotEmptyStr(e) == ~IsEmptyStr(e)

\* adjacent onStrValue calls merged into one, and the empty ones left out
Canonical(evs) == SelectSeq(Merge(evs), IsNotEmptyStr)

(* C11: whatever bytes were fed, in whatever chunks, once finish() was     *)
(* called the calls made are, after merging adjacent onStrValue calls and  *)
(* leaving out the empty ones, the calls made when the same bytes are one  *)
(* chunk; the completions and their arguments are the same in both.  Any   *)
(* two chunkings of the same bytes therefore agree.                        *)
C11_SameUpToFragments ==
    call.op = "finish" =>
        /\ Canonical(events) = Canonical(WholeRun(Fed))
        /\ Completions(events) = Completions(WholeRun(Fed))

C11_Witness ==
    /\ call.op = "finish"
    /\ \E k \in 1..Len(recs) : recs[k] \in Blanks \cup Garbled
    /\ pos < Len(input)
    /\ Len(Completions(events)) >= 1
    /\ \E i \in 1..Len(events) : IsEmptyStr(events[i])
    /\ events # WholeRun(Fed)

-----------------------------------------------------------------------------
(* Where the numeric fields of the records lie in the stream *)

\* the state that scans the first numeric field of a record
FirstState(kind) ==
    CASE kind = "Line" -> LineHexAddr
      [] kind = "Func" -> FuncHexAddr
      [] kind = "File" -> FileDecIndex
      [] kind = "Public" -> PublicHexAddr

\* the state that scans field i
FieldState(kind, i) == FirstState(kind) + (i - 1)

\* the offset in the stream of the first digit of field i of line k
FieldStart(k, i) ==
    EndOf(k - 1)
      + (IF recs[k].kw = <<>> THEN 0 ELSE Len(recs[k].kw) + 1)
      + Len(Join(SubSeq(recs[k].f, 1, i - 1)))
      + (IF i > 1 THEN 1 ELSE 0)

\* the offset right after its last digit
FieldEnd(k, i) == FieldStart(k, i) + Len(recs[k].f[i])

\* the fields of the records of the stream, as pairs <<k, i>>
Fields == {ki \in (1..Len(recs)) \X (1..4) :
              IsRecord(recs[ki[1]]) /\ ki[2] <= Len(recs[ki[1]].f)}

HexFields == {ki \in Fields : BaseOf(recs[ki[1]].kind, ki[2]) = 16}

DecFields == {ki \in Fields : BaseOf(recs[ki[1]].kind, ki[2]) = 10}

\* the delimiter of field <<k, i>> was the last byte fed
JustDelimited(ki) == pos = FieldEnd(ki[1], ki[2]) + 1

\* the field was committed: the slot holds the value of its whole digit
\* run, the cursor is past it and the state is the successor
Committed(ki) ==
    /\ state = State_next(FieldState(recs[ki[1]].kind, ki[2]))
    /\ row_pos = ki[2]
    /\ row[ki[2]] = WideValue(recs[ki[1]].f[ki[2]], BaseOf(recs[ki[1]].kind, ki[2]))

(* C12: when the delimiter of a hex field has been consumed the slot of    *)
(* the field holds the base-16 value of its digit run, however the run and *)
(* the delimiter were split into chunks; the cursor is one further and the *)
(* state is the successor.                                                 *)
C12_HexCommit ==
    NoBlanks => \A ki \in HexFields : JustDelimited(ki) => Committed(ki)

(* C13: when the delimiter of a decimal field has been consumed the slot   *)
(* of the field holds the base-10 value of its digit run, however the run  *)
(* and the delimiter were split into chunks; the cursor is one further and *)
(* the state is the successor (or Start, once finish() has completed the   *)
(* record the field was the last of).                                      *)
C13_DecCommit ==
    NoBlanks =>
        \A ki \in DecFields :
            JustDelimited(ki) =>
                \/ Committed(ki)
                \/ /\ State_next(FieldState(recs[ki[1]].kind, ki[2])) \in EndStates
                   /\ state = Start
                   /\ Len(Completions(events)) = Len(RecordsOf(SubSeq(recs, 1, ki[1])))

C13_Witness ==
    /\ NoBlanks
    /\ \E ki \in DecFields :
          /\ Len(recs[ki[1]].f[ki[2]]) >= 2
          /\ JustDelimited(ki)
          /\ Committed(ki)
          /\ row[ki[2]] # u32(0)

-----------------------------------------------------------------------------
(* The steps of a call *)

\* the chunk of the parse step being taken, and the iterations it makes
ChunkNow == SubSeq(input, pos + 1, pos')

StepsNow == parse_steps(self_now, ChunkNow, 0)

AllStates == Start..PublicEnd

\* the states inside a family that the scanners advance from
ChainStates == (LineHexAddr..LineDecFile) \cup (Func..FuncStrName)
                 \cup (File..FileStrName) \cup (Public..PublicStrName)

Edges ==
    {<<Start, LineHexAddr>>, <<Start, FuncOrFile>>, <<Start, Public>>,
     <<Start, Skip>>, <<FuncOrFile, Func>>, <<FuncOrFile, File>>,
     <<FuncOrFile, Skip>>, <<Skip, Start>>}
      \cup {<<s, Start>> : s \in EndStates}
      \cup {<<s, s + 1>> : s \in ChainStates}

C14_Stepwise ==
    /\ state' \in AllStates
    /\ call'.op = "finish" => (state' = state \/ <<state, state'>> \in Edges)
    /\ call'.op = "parse" =>
          \E steps \in {StepsNow} :
            /\ \A j \in 1..Len(steps) :
                  \/ steps[j].to = steps[j].from
                  \/ <<steps[j].from, steps[j].to>> \in Edges
            /\ \A j \in 1..(Len(steps) - 1) : steps[j + 1].from = steps[j].to
            /\ steps # <<>> =>
                  steps[1].from = state /\ steps[Len(steps)].to = state'
            /\ steps = <<>> => state' = state

(* C14: every change of the state made by an iteration of parse or by      *)
(* finish() is one of Start -> LineHexAddr, FuncOrFile, Public or Skip,    *)
(* FuncOrFile -> Func, File or Skip, Skip -> Start, an End state -> Start, *)
(* or a state inside a family -> its successor; the state is always one of *)
(* the 23 declared values.                                                 *)
C14_Transitions == [][C14_Stepwise]_vars

C14_Witness ==
    /\ recs # <<>>
    /\ recs[1] \in Garbled
    /\ pos = Len(input)
    /\ Len(recs) = 2
    /\ call.op = "finish"
    /\ events # <<>>

\* the number of numeric fields completed when the parser is in state s
CursorOf(s) ==
    CASE s \in {LineHexSize, FuncHexSize, PublicHexParams, FileStrName, FileEnd} -> 1
      [] s \in {LineDecLine, FuncHexParams, PublicStrName, PublicEnd} -> 2
      [] s \in {LineDecFile, FuncStrName, FuncEnd} -> 3
      [] s = LineEnd -> 4
      [] OTHER -> 0

(* C15: the cursor is the number of numeric fields completed in the state  *)
(* the parser is in, 4 only in LineEnd, so that in the states of the hex   *)
(* and decimal scanners it is an index 0..3 of the row.                    *)
C15_Cursor ==
    /\ row_pos = CursorOf(state)
    /\ state \in HexStates \cup DecStates => row_pos \in 0..3

C15_Witness ==
    /\ state = LineEnd
    /\ row_pos = 4
    /\ recs # <<>>
    /\ recs[1] \in Garbled

\* an iteration that returns the offset it was given
NonConsuming(step) == step.ret = step.at

\* the three ways the code has of changing the state on a byte it leaves
Handover(step, chunk) ==
    \/ step.from \in EndStates /\ step.to = Start
    \/ /\ step.from = Start
       /\ step.to = LineHexAddr
       /\ hex_value(At(chunk, step.at)) # NoDigit
    \/ /\ step.from \in BareStates
       /\ step.to = State_next(step.from)
       /\ hex_value(At(chunk, step.at)) # NoDigit

C16_Stepwise ==
    call'.op = "parse" =>
      \E chunk \in {ChunkNow} : \E steps \in {parse_steps(self_now, chunk, 0)} :
        /\ \A j \in 1..Len(steps) :
              /\ steps[j].at <= steps[j].ret
              /\ steps[j].ret <= Len(chunk)
              /\ NonConsuming(steps[j]) => Handover(steps[j], chunk)
        /\ \A j \in 1..(Len(steps) - 2) :
              ~ /\ NonConsuming(steps[j])
                /\ NonConsuming(steps[j + 1])
                /\ NonConsuming(steps[j + 2])
        /\ \A j \in 1..(Len(steps) - 1) : steps[j + 1].at = steps[j].ret
        /\ chunk = <<>> => steps = <<>>
        /\ chunk # <<>> =>
              /\ steps # <<>>
              /\ steps[1].at = 0
              /\ steps[Len(steps)].ret = Len(chunk)
        /\ Len(steps) <= 3 * Len(chunk)

(* C16: a parse ends with the offset equal to the length of the chunk:     *)
(* every iteration returns an offset between the one it was given and the  *)
(* length of the chunk, one that returns the offset it was given changes   *)
(* the state (End -> Start, Start -> LineHexAddr on a hex digit, Func,     *)
(* File or Public -> successor on a digit), and no three such iterations   *)
(* follow each other.                                                      *)
C16_Terminates == [][C16_Stepwise]_vars

\* a record and a Line record after it were parsed in one chunk: the
\* completion and the Start on the digit both leave the byte
C16_Witness ==
    /\ pos = Len(input)
    /\ nfinish = 0
    /\ events = parse(new, Fed).events
    /\ \E steps \in {parse_steps(new, Fed, 0)} :
         \E j \in 1..(Len(steps) - 1) :
            NonConsuming(steps[j]) /\ NonConsuming(steps[j + 1])

\* the first numeric fields of the records of the stream
FirstFields == {ki \in Fields : ki[2] = 1}

C17_Stepwise ==
    call'.op = "parse" =>
      \E chunk \in {ChunkNow} : \E steps \in {parse_steps(self_now, chunk, 0)} :
        \A j \in 1..Len(steps) :
          steps[j].from \in {Start} \cup BareStates =>
            /\ hex_value(At(chunk, steps[j].at)) # NoDigit =>
                  /\ steps[j].ret = steps[j].at
                  /\ steps[j].to = IF steps[j].from = Start
                                   THEN LineHexAddr
                                   ELSE State_next(steps[j].from)
            /\ steps[j].from \in BareStates =>
                  /\ steps[j].calls = 0
                  /\ \A i \in steps[j].at..(steps[j].ret - 1) :
                        hex_value(At(chunk, i)) = NoDigit
                  /\ IF steps[j].ret < Len(chunk)
                     THEN /\ hex_value(At(chunk, steps[j].ret)) # NoDigit
                          /\ steps[j].to = State_next(steps[j].from)
                     ELSE steps[j].to = steps[j].from
            /\ steps[j].to \in HexStates \cup DecStates =>
                  /\ j < Len(steps)
                  /\ steps[j + 1].from = steps[j].to
                  /\ steps[j + 1].at = steps[j].ret
                  /\ steps[j + 1].ret > steps[j].ret

C17_FirstDigitHeld ==
    NoBlanks =>
      \A ki \in FirstFields :
        pos = FieldStart(ki[1], 1) + 1 =>
          /\ state = FirstState(recs[ki[1]].kind)
          /\ row_pos = 0
          /\ row[1] = WideValue(SubSeq(recs[ki[1]].f[1], 1, 1),
                                BaseOf(recs[ki[1]].kind, 1))

(* C17: when Start sees a hex digit, and when the skip of Func, File or    *)
(* Public sees its first digit, the state advances and the byte is left;   *)
(* the numeric scanner runs next on that byte, which becomes the first     *)
(* digit of the first field of the record; the bytes the skip passed       *)
(* before it are dropped without a call.                                   *)
C17_FirstDigitKept == [][C17_Stepwise]_vars /\ []C17_FirstDigitHeld

C17_Witness ==
    /\ NoBlanks
    /\ \E ki \in FirstFields :
         /\ recs[ki[1]].kind = "Func"
         /\ ki[1] = 2
         /\ pos = FieldStart(ki[1], 1) + 1
         /\ state = FuncHexAddr
         /\ row[1] # u32(0)

\* the field ki is being scanned: its first digit is fed, its delimiter not
InField(ki) ==
    /\ FieldStart(ki[1], ki[2]) < pos
    /\ pos <= FieldEnd(ki[1], ki[2])

\* the digits of the field ki fed so far
DigitsFed(ki) == SubSeq(recs[ki[1]].f[ki[2]], 1, pos - FieldStart(ki[1], ki[2]))

\* a field whose value does not fit 32 bits
IsWide(ki) ==
    Len(recs[ki[1]].f[ki[2]]) > (IF BaseOf(recs[ki[1]].kind, ki[2]) = 16 THEN 8 ELSE 9)

Callbacks == {"onLine", "onFunc", "onFile", "onPublic", "onStrValue"}

NamedCompletion(e) == e.cb \in {"onFunc", "onFile", "onPublic"}

C19_Preceded ==
    /\ \A i \in 1..Len(events) :
          NamedCompletion(events[i]) => i > 1 /\ IsStr(events[i - 1])
    /\ \A i \in 1..Len(events) : IsStr(events[i]) <=> by[i] \in StrStates

C19_Stepwise ==
    call'.op = "parse" =>
      \E steps \in {StepsNow} :
        /\ \A j \in 1..Len(steps) :
              steps[j].calls = IF steps[j].from \in StrStates \cup EndStates
                               THEN 1 ELSE 0
        /\ Len(events') = Len(events) +
              Cardinality({j \in 1..Len(steps) :
                             steps[j].from \in StrStates \cup EndStates})

(* C19: every onFunc, onFile and onPublic call comes right after an        *)
(* onStrValue call, so at least one fragment lies between it and the       *)
(* completion before it; every iteration that runs the string scanner      *)
(* makes exactly one onStrValue call, an empty one when the newline is the *)
(* first byte it sees, and no other iteration makes one.                   *)
C19_FragmentBeforeName == [][C19_Stepwise]_vars /\ []C19_Preceded

\* the newline of an empty name was the first byte of the scan: an empty
\* fragment and the completion right after it
C19_Witness ==
    \E i \in 1..(Len(events) - 1) :
        /\ IsEmptyStr(events[i])
        /\ events[i + 1].cb = "onFile"
        /\ (i > 1 => ~IsStr(events[i - 1]))

====
